---------------------------- MODULE Spec2Model ----------------------------
(***************************************************************************)
(* Visual regression scripts of janesferr/Regression-test.                 *)
(*                                                                         *)
(* Two scripts implement the same flow:                                    *)
(*   "baseline" : src/pythonregression.py                                  *)
(*   "improved" : src/unnamed/part_000 ("SELENIUM VERSION WITH IMPROVED    *)
(*                RENDERING FOR SITE-A")                                   *)
(* The variable `variant` says which script is running.  Strings that the  *)
(* code takes apart (URLs, paths, slugs, the report) are sequences of      *)
(* one-character strings; longer literals of the code that are never taken *)
(* apart are single tokens.                                                *)
(***************************************************************************)
EXTENDS Integers, Sequences, FiniteSets, TLC

\* ------------------------------------------------------------------ bounds
\* Most <loc> entries one sitemap response holds.
MaxLocs == 2

\* ------------------------------------------------------- program constants
RETRY_COUNT == 2

Variants == {"baseline", "improved"}

\* SOURCE_SITE / TARGET_SITE, shortened to scheme "h" and hosts "s" / "t".
SOURCE_SITE == <<"h", ":", "/", "/", "s">>
TARGET_SITE == <<"h", ":", "/", "/", "t">>

\* Python's None.
None == <<"<None>">>

\* ------------------------------------------------------------ str helpers
\* Code points, for Python's ordering of str.
Ord(c) ==
    CASE c = " " -> 32
      [] c = "/" -> 47
      [] c = ":" -> 58
      [] c = "?" -> 63
      [] c = "_" -> 95
      [] c = "a" -> 97
      [] c = "b" -> 98
      [] c = "h" -> 104
      [] c = "s" -> 115
      [] c = "t" -> 116
      [] OTHER -> 200

Letters == {"a", "b", "h", "s", "t"}

Range(s) == {s[i] : i \in 1..Len(s)}

\* s < t for Python str.
RECURSIVE StrLess(_, _)
StrLess(s, t) ==
    IF t = <<>> THEN FALSE
    ELSE IF s = <<>> THEN TRUE
    ELSE IF Head(s) = Head(t) THEN StrLess(Tail(s), Tail(t))
    ELSE Ord(Head(s)) < Ord(Head(t))

\* sorted(S) for a set of str.
RECURSIVE Sorted(_)
Sorted(S) ==
    IF S = {} THEN <<>>
    ELSE LET m == CHOOSE x \in S : \A y \in S \ {x} : StrLess(x, y)
         IN  <<m>> \o Sorted(S \ {m})

\* s.lstrip(chars), s.rstrip(chars), s.strip(chars)
RECURSIVE LStrip(_, _)
LStrip(s, chars) ==
    IF s # <<>> /\ Head(s) \in chars THEN LStrip(Tail(s), chars) ELSE s

RECURSIVE RStrip(_, _)
RStrip(s, chars) ==
    IF s # <<>> /\ s[Len(s)] \in chars
    THEN RStrip(SubSeq(s, 1, Len(s) - 1), chars)
    ELSE s

StripChars(s, chars) == RStrip(LStrip(s, chars), chars)

Whitespace == {" "}

\* str.strip()
Strip(s) == StripChars(s, Whitespace)

\* s.replace(old, new) for one-character old and new.
Replace(s, old, new) == [i \in 1..Len(s) |-> IF s[i] = old THEN new ELSE s[i]]

\* s.find(c), 1-based; 0 when absent.
Find(s, chars) ==
    IF \E i \in 1..Len(s) : s[i] \in chars
    THEN CHOOSE i \in 1..Len(s) : s[i] \in chars /\ \A j \in 1..(i - 1) : s[j] \notin chars
    ELSE 0

\* bool(x) for a str or None.
Truthy(x) == x # None /\ x # <<>>

\* urlparse(u).path : scheme, "//" netloc, then the path up to "?" or "#".
UrlPath(u) ==
    LET colon   == Find(u, {":"})
        hasSch  == colon > 1 /\ \A j \in 1..(colon - 1) : u[j] \in Letters
        rest    == IF hasSch THEN SubSeq(u, colon + 1, Len(u)) ELSE u
        hasNet  == Len(rest) >= 2 /\ rest[1] = "/" /\ rest[2] = "/"
        afterSl == IF hasNet THEN SubSeq(rest, 3, Len(rest)) ELSE rest
        netEnd  == Find(afterSl, {"/", "?", "#"})
        tail    == IF ~hasNet THEN rest
                   ELSE IF netEnd = 0 THEN <<>>
                   ELSE SubSeq(afterSl, netEnd, Len(afterSl))
        cut     == Find(tail, {"?", "#"})
    IN  IF cut = 0 THEN tail ELSE SubSeq(tail, 1, cut - 1)

\* get_path_slug(path)
get_path_slug(path) ==
    LET s == Replace(StripChars(path, {"/"}), "/", "_")
    IN  IF s # <<>> THEN s ELSE <<"h", "o", "m", "e">>


\* ------------------------------------------------------------------ inputs
\* Text of the <loc> elements a sitemap of each site may hold: an empty
\* element, plain URLs and a URL with surrounding whitespace.
SourceLocs ==
    { <<>>,
      SOURCE_SITE \o <<"/">>,
      <<" ">> \o SOURCE_SITE \o <<"/", "a">> \o <<" ">> }

TargetLocs ==
    { TARGET_SITE \o <<"/", "a">>,
      TARGET_SITE \o <<"/", "a", "/">>,
      <<" ">> \o TARGET_SITE \o <<"/", "b">> }

Sites == {"source", "target"}

LocsOf(site) == IF site = "source" THEN SourceLocs ELSE TargetLocs

SeqsUpTo(S, n) == UNION {[1..k -> S] : k \in 0..n}

\* What requests.get + raise_for_status + BeautifulSoup can give: a network
\* error, a non-2xx status, a parser failure, or a document with its <loc>s.
ErrorKinds == {"network_error", "http_error", "parse_error"}

Responses(site) ==
    {[kind |-> k, locs |-> <<>>] : k \in ErrorKinds}
    \cup {[kind |-> "ok", locs |-> l] : l \in SeqsUpTo(LocsOf(site), MaxLocs)}

NoResponse == [kind |-> "unfetched", locs |-> <<>>]

\* ------------------------------------------------------- get_sitemap_urls
\* The body of the try block: raises, or yields the stripped <loc> texts.
\* The baseline also raises ValueError on an empty list.
SitemapTry(v, resp) ==
    LET urls == [i \in 1..Len(resp.locs) |-> Strip(resp.locs[i])]
    IN  IF resp.kind # "ok" THEN [raised |-> TRUE, urls |-> <<>>]
        ELSE IF v = "baseline" /\ urls = <<>> THEN [raised |-> TRUE, urls |-> <<>>]
        ELSE [raised |-> FALSE, urls |-> urls]

\* Mutant of get_sitemap_urls: the except clause is missing, the exception
\* leaves the function.
get_sitemap_urls_uncaught(v, resp) ==
    LET t == SitemapTry(v, resp)
    IN  IF t.raised THEN [raised |-> TRUE, value |-> <<>>]
        ELSE [raised |-> FALSE, value |-> t.urls]

\* get_sitemap_urls(sitemap_url): `except Exception` returns [].
get_sitemap_urls(v, resp) ==
    LET t == SitemapTry(v, resp)
    IN  IF t.raised THEN [raised |-> FALSE, value |-> <<>>]
        ELSE [raised |-> FALSE, value |-> t.urls]

\* ---------------------------------------------------------- reconciliation
\* `if not target_urls: target_urls = [f"{TARGET_SITE}/"]` (baseline only)
TargetFallback(v, urls) ==
    IF v = "baseline" /\ urls = <<>> THEN <<TARGET_SITE \o <<"/">>>> ELSE urls

\* {urlparse(u).path: u for u in urls}: a later URL replaces an earlier one.
UrlMap(urls) ==
    [p \in {UrlPath(urls[i]) : i \in 1..Len(urls)} |->
        LET last == CHOOSE i \in 1..Len(urls) :
                        /\ UrlPath(urls[i]) = p
                        /\ \A j \in (i + 1)..Len(urls) : UrlPath(urls[j]) # p
        IN  urls[last]]

\* dict.get(key)
Get(map, key) == IF key \in DOMAIN map THEN map[key] ELSE None

\* sorted(set(source_map.keys()).union(set(target_map.keys())))
AllPaths(smap, tmap) == Sorted(DOMAIN smap \cup DOMAIN tmap)

\* ------------------------------------------------ take_fullpage_screenshot
\* The step of one attempt that raises, if any.  Driver commands raise
\* WebDriverException; writing the file raises OSError.
DriverSteps == {"navigate", "scroll", "resize", "screenshot"}
Steps == DriverSteps \cup {"write"}

\* The cookie banner: found and clicked, or find_element/click raised.
\* It is not reached when driver.get raised.
CookieOutcomes == {"dismissed", "absent"}

AttemptOutcomes ==
    {[step |-> "navigate", cookie |-> "unreached"]}
    \cup [step : {"ok"} \cup (Steps \ {"navigate"}), cookie : CookieOutcomes]

\* The exception class of a failing step, as the except clauses see it.
ErrorClass(step) ==
    IF step = "ok" THEN "none"
    ELSE IF step \in DriverSteps THEN "WebDriverException"
    ELSE "OSError"

\* Mutant of AttemptResult: the loop runs one pass too many
\* (range(1, RETRY_COUNT + 2)).
AttemptResult_extra_pass(v, attempt, o) ==
    IF o.step = "ok" THEN "True"
    ELSE IF v = "improved" THEN "False"
    ELSE IF ErrorClass(o.step) = "WebDriverException"
         THEN IF attempt < RETRY_COUNT + 1 THEN "retry" ELSE "False"
    ELSE "raise"

\* What one pass of the procedure leads to: "True" / "False" returned,
\* "retry" (next iteration of the for loop) or "raise" (exception escapes).
\* baseline: `except WebDriverException`, RETRY_COUNT passes.
\* improved: `except Exception`, one pass.
AttemptResult(v, attempt, o) ==
    IF o.step = "ok" THEN "True"
    ELSE IF v = "improved" THEN "False"
    ELSE IF ErrorClass(o.step) = "WebDriverException"
         THEN IF attempt < RETRY_COUNT THEN "retry" ELSE "False"
    ELSE "raise"

\* `x and f()` where f() returned r: the value of the expression.
PyAnd(x, r) == IF x = None THEN "None" ELSE IF x = <<>> THEN "''" ELSE r

\* bool() of such a value.
IsTrue(val) == val = "True"

\* os.path.join(page_dir, "source.png"), relative to REPORT_DIR, and the
\* report's f"{slug}/source.png".
ImgName(side) == IF side = "source" THEN "source.png" ELSE "target.png"
ImgPath(slug, side) == slug \o <<"/", ImgName(side)>>

\* Mutant of MakeEntry: the image path is filled in whenever the side has a
\* result at all, successful or not.
MakeEntry_any_result(slug, path, ssucc, tsucc) ==
    [slug          |-> slug,
     path          |-> path,
     source        |-> IF ssucc \in {"True", "False"} THEN ImgPath(slug, "source") ELSE None,
     target        |-> IF tsucc \in {"True", "False"} THEN ImgPath(slug, "target") ELSE None,
     source_failed |-> ~IsTrue(ssucc),
     target_failed |-> ~IsTrue(tsucc)]

\* The dict appended to report_entries.
MakeEntry(slug, path, ssucc, tsucc) ==
    [slug          |-> slug,
     path          |-> path,
     source        |-> IF IsTrue(ssucc) THEN ImgPath(slug, "source") ELSE None,
     target        |-> IF IsTrue(tsucc) THEN ImgPath(slug, "target") ELSE None,
     source_failed |-> ~IsTrue(ssucc),
     target_failed |-> ~IsTrue(tsucc)]

\* ---------------------------------------------------- generate_html_report
HtmlHead == <<"<html><head>...</head><body>", "<h1>Visual Regression Report</h1>">>
HtmlFoot == <<"</body></html>">>

SideElement(img, side) ==
    IF Truthy(img)
    THEN <<"<img src='">> \o img \o <<IF side = "source" THEN "' alt='Source'>" ELSE "' alt='Target'>">>
    ELSE <<IF side = "source" THEN "<p class='missing'>Source page not available</p>"
           ELSE "<p class='missing'>Target page not available</p>">>

\* Mutant of EntryBlock: the placeholder of the target side is appended
\* outside the if/else, also after an <img>.
EntryBlock_dangling_else(e) ==
    <<"<div class='page'>", "<h2>">> \o e.path \o <<"</h2>">>
    \o <<"<div><label>Pass</label><label>Fail</label></div>">>
    \o SideElement(e.source, "source")
    \o (IF Truthy(e.target) THEN SideElement(e.target, "target") ELSE <<>>)
    \o SideElement(None, "target")
    \o <<"</div>">>

\* The lines appended for one entry.
EntryBlock(e) ==
    <<"<div class='page'>", "<h2>">> \o e.path \o <<"</h2>">>
    \o <<"<div><label>Pass</label><label>Fail</label></div>">>
    \o SideElement(e.source, "source")
    \o SideElement(e.target, "target")
    \o <<"</div>">>

RECURSIVE EntryBlocks(_)
EntryBlocks(entries) ==
    IF entries = <<>> THEN <<>>
    ELSE EntryBlock(Head(entries)) \o EntryBlocks(Tail(entries))

\* '\n'.join(html)
RenderHtml(entries) == HtmlHead \o EntryBlocks(entries) \o HtmlFoot


\* ------------------------------------------------------------------- state
VARIABLES
    variant,         \* which script runs
    pc,              \* position in the script
    sessions,        \* every webdriver.Chrome(...) created: "open" / "closed"
    driver,          \* the session the global `driver` names (0: none yet)
    response,        \* what the sitemap request just made gave
    source_urls,     \* run_test locals
    target_urls,     \* (as returned by get_sitemap_urls)
    source_map,
    target_map,
    all_paths,
    idx,             \* position of the for loop in all_paths
    side,            \* the capture in progress: "source" / "target"
    attempt,         \* loop variable of take_fullpage_screenshot
    callLog,         \* the passes of the capture in progress or just ended:
                     \* exception class and cookie step of each
    ret,             \* how the capture just ended: "none", "True", "False", "raised"
    source_success,
    target_success,
    attempted,       \* <<path, side>> of every capture called
    returned,        \* <<path, side, "True" / "False" / "raised">> of every capture ended
    files,           \* screenshot files on disk: file path -> path of the page in it
    report_entries,
    reportCalls,     \* calls of generate_html_report
    html,            \* the document generate_html_report built
    index_html,      \* content of REPORT_DIR/index.html, None if not written
    unexpected       \* an exception reached the top-level handler

vars == <<variant, pc, sessions, driver, response, source_urls, target_urls,
          source_map, target_map, all_paths, idx, side, attempt, callLog, ret,
          source_success, target_success, attempted, returned, files,
          report_entries, reportCalls, html, index_html, unexpected>>

bootVars == <<sessions, driver>>
fetchVars == <<response, source_urls, target_urls>>
mapVars == <<source_map, target_map, all_paths>>
callVars == <<side, attempt, callLog, ret>>
loopVars == <<idx, source_success, target_success, attempted, returned, files,
              report_entries>>
reportVars == <<reportCalls, html, index_html>>

EmptyMap == [p \in {} |-> None]

Init ==
    /\ variant \in Variants
    /\ pc = "start"
    /\ sessions = <<>>
    /\ driver = 0
    /\ response = NoResponse
    /\ source_urls = <<>>
    /\ target_urls = <<>>
    /\ source_map = EmptyMap
    /\ target_map = EmptyMap
    /\ all_paths = <<>>
    /\ idx = 1
    /\ side = "source"
    /\ attempt = 1
    /\ callLog = <<>>
    /\ ret = "none"
    /\ source_success = "None"
    /\ target_success = "None"
    /\ attempted = {}
    /\ returned = {}
    /\ files = EmptyMap
    /\ report_entries = <<>>
    /\ reportCalls = 0
    /\ html = None
    /\ index_html = None
    /\ unexpected = FALSE

\* The page the for loop of run_test is at.
CurPath == all_paths[idx]
CurSlug == get_path_slug(CurPath)
src_url == Get(source_map, CurPath)
tgt_url == Get(target_map, CurPath)

\* ----------------------------------------------------------- module level
\* driver = webdriver.Chrome(...).  The improved script runs it twice
\* (lines 50 and 126), rebinding `driver`.
CreateDriver ==
    /\ pc \in {"start", "start2"}
    /\ sessions' = Append(sessions, "open")
    /\ driver' = Len(sessions) + 1
    /\ pc' = IF variant = "improved" /\ pc = "start" THEN "start2" ELSE "maximize"
    /\ UNCHANGED <<variant, unexpected>>
    /\ UNCHANGED <<fetchVars, mapVars, callVars, loopVars, reportVars>>

\* driver.maximize_window(), outside every try block: when it raises the
\* script ends there.
MaximizeWindow ==
    /\ pc = "maximize"
    /\ \E ok \in BOOLEAN : pc' = IF ok THEN "fetch_source" ELSE "crashed"
    /\ UNCHANGED <<variant, unexpected>>
    /\ UNCHANGED <<bootVars, fetchVars, mapVars, callVars, loopVars, reportVars>>

\* ----------------------------------------------------------------- run_test
\* source_urls = get_sitemap_urls(SOURCE_SITEMAP_URL), then the same for
\* the target.  An exception would leave run_test.
FetchSitemap ==
    /\ pc \in {"fetch_source", "fetch_target"}
    /\ LET site == IF pc = "fetch_source" THEN "source" ELSE "target"
       IN  \E resp \in Responses(site) :
             LET r == get_sitemap_urls(variant, resp)
             IN  /\ response' = resp
                 /\ IF r.raised
                    THEN /\ pc' = "finally"
                         /\ unexpected' = TRUE
                         /\ UNCHANGED <<source_urls, target_urls>>
                    ELSE /\ pc' = IF site = "source" THEN "fetch_target" ELSE "reconcile"
                         /\ unexpected' = unexpected
                         /\ source_urls' = IF site = "source" THEN r.value ELSE source_urls
                         /\ target_urls' = IF site = "target" THEN r.value ELSE target_urls
    /\ UNCHANGED variant
    /\ UNCHANGED <<bootVars, mapVars, callVars, loopVars, reportVars>>

\* The fallback, the two dicts and all_paths.
Reconcile ==
    /\ pc = "reconcile"
    /\ source_map' = UrlMap(source_urls)
    /\ target_map' = UrlMap(TargetFallback(variant, target_urls))
    /\ all_paths' = AllPaths(source_map', target_map')
    /\ response' = NoResponse
    /\ pc' = "loop"
    /\ UNCHANGED <<variant, unexpected, source_urls, target_urls>>
    /\ UNCHANGED <<bootVars, callVars, loopVars, reportVars>>

\* Top of the loop body up to the first capture that is called:
\* `src_url and take_fullpage_screenshot(...)` calls only for a truthy URL.
StartPath ==
    /\ pc = "loop"
    /\ idx <= Len(all_paths)
    /\ source_success' = PyAnd(src_url, "pending")
    /\ target_success' = PyAnd(tgt_url, "pending")
    /\ IF Truthy(src_url) \/ Truthy(tgt_url)
       THEN /\ side' = IF Truthy(src_url) THEN "source" ELSE "target"
            /\ attempt' = 1
            /\ callLog' = <<>>
            /\ ret' = "none"
            /\ attempted' = attempted \cup {<<CurPath, side'>>}
            /\ pc' = "capture"
       ELSE /\ pc' = "append"
            /\ UNCHANGED <<callVars, attempted>>
    /\ UNCHANGED <<variant, unexpected, idx, returned, files, report_entries>>
    /\ UNCHANGED <<bootVars, fetchVars, mapVars, reportVars>>

\* One pass of the procedure of take_fullpage_screenshot for the capture in
\* progress, and, when it returns, the rest of the loop body up to the
\* next call.
Attempt ==
    /\ pc = "capture"
    /\ \E o \in AttemptOutcomes :
         LET r == AttemptResult(variant, attempt, o)
             prev == IF attempt = 1 THEN <<>> ELSE callLog
         IN  /\ callLog' = Append(prev, [error |-> ErrorClass(o.step), cookie |-> o.cookie])
             /\ files' = IF o.step = "ok"
                         THEN (ImgPath(CurSlug, side) :> CurPath) @@ files
                         ELSE files
             /\ CASE r = "retry" ->
                       /\ attempt' = attempt + 1
                       /\ ret' = "none"
                       /\ UNCHANGED <<pc, side, source_success, target_success,
                                      attempted, returned, unexpected>>
                  [] r = "raise" ->
                       /\ ret' = "raised"
                       /\ returned' = returned \cup {<<CurPath, side, "raised">>}
                       /\ unexpected' = TRUE
                       /\ pc' = "finally"
                       /\ UNCHANGED <<side, attempt, source_success, target_success,
                                      attempted>>
                  [] OTHER ->
                       /\ ret' = r
                       /\ returned' = returned \cup {<<CurPath, side, r>>}
                       /\ source_success' = IF side = "source" THEN PyAnd(src_url, r)
                                            ELSE source_success
                       /\ target_success' = IF side = "target" THEN PyAnd(tgt_url, r)
                                            ELSE target_success
                       /\ IF side = "source" /\ Truthy(tgt_url)
                          THEN /\ side' = "target"
                               /\ attempt' = 1
                               /\ attempted' = attempted \cup {<<CurPath, "target">>}
                               /\ pc' = "capture"
                          ELSE /\ pc' = "append"
                               /\ UNCHANGED <<side, attempt, attempted>>
                       /\ UNCHANGED unexpected
    /\ UNCHANGED <<variant, idx, report_entries>>
    /\ UNCHANGED <<bootVars, fetchVars, mapVars, reportVars>>

\* report_entries.append({...}) and on to the next path.
AppendEntry ==
    /\ pc = "append"
    /\ report_entries' = Append(report_entries,
                                MakeEntry(CurSlug, CurPath, source_success, target_success))
    /\ idx' = idx + 1
    /\ callLog' = <<>>
    /\ ret' = "none"
    /\ pc' = "loop"
    /\ UNCHANGED <<variant, unexpected, source_success, target_success, attempted,
                   returned, files, side, attempt>>
    /\ UNCHANGED <<bootVars, fetchVars, mapVars, reportVars>>

\* generate_html_report(report_entries) after the loop; writing index.html
\* may fail, which is logged and swallowed.
GenerateReport ==
    /\ pc = "loop"
    /\ idx > Len(all_paths)
    /\ reportCalls' = reportCalls + 1
    /\ html' = RenderHtml(report_entries)
    /\ \E written \in BOOLEAN : index_html' = IF written THEN html' ELSE index_html
    /\ pc' = "finally"
    /\ UNCHANGED <<variant, unexpected>>
    /\ UNCHANGED <<bootVars, fetchVars, mapVars, callVars, loopVars>>

\* finally: driver.quit()
Quit ==
    /\ pc = "finally"
    /\ sessions' = [sessions EXCEPT ![driver] = "closed"]
    /\ pc' = "done"
    /\ UNCHANGED <<variant, driver, unexpected>>
    /\ UNCHANGED <<fetchVars, mapVars, callVars, loopVars, reportVars>>

Next ==
    \/ CreateDriver
    \/ MaximizeWindow
    \/ FetchSitemap
    \/ Reconcile
    \/ StartPath
    \/ Attempt
    \/ AppendEntry
    \/ GenerateReport
    \/ Quit

Spec == Init /\ [][Next]_vars


\* ------------------------------------------------------ reading the state
Root == <<"/">>

\* run_test has built all_paths.
Reconciled == pc \in {"loop", "capture", "append", "finally", "done"}

Ended == pc \in {"done", "crashed"}

\* The paths of the URLs of a sequence.
PathsOf(urls) == {UrlPath(urls[i]) : i \in 1..Len(urls)}

\* s1 < s2 < ... in Python's order of str.
Ascending(seq) == \A i \in 1..(Len(seq) - 1) : StrLess(seq[i], seq[i + 1])

EntryPaths == [i \in 1..Len(report_entries) |-> report_entries[i].path]

\* The capture of one side of a page was called / returned True / False.
Called(p, sd) == <<p, sd>> \in attempted
Succeeded(p, sd) == <<p, sd, "True">> \in returned
Failed(p, sd) == <<p, sd, "False">> \in returned

\* Reading the report back: the k-th <div class='page'> block.
DivPage == "<div class='page'>"
Count(seq, tok) == Cardinality({i \in 1..Len(seq) : seq[i] = tok})
\* Where the blocks start, in document order, from position i on.
RECURSIVE DivPositions(_, _)
DivPositions(h, i) ==
    IF i > Len(h) THEN <<>>
    ELSE IF h[i] = DivPage THEN <<i>> \o DivPositions(h, i + 1)
    ELSE DivPositions(h, i + 1)
\* The blocks of a document: each runs up to the next block or the foot.
PageBlocks(h) ==
    LET d == DivPositions(h, 1)
    IN  [k \in 1..Len(d) |->
            SubSeq(h, d[k], IF k < Len(d) THEN d[k + 1] - 1 ELSE Len(h) - Len(HtmlFoot))]
\* The text of the heading of a block that holds one <h2> ... </h2>.
Heading(b) ==
    LET o == CHOOSE i \in 1..Len(b) : b[i] = "<h2>"
        c == CHOOSE i \in 1..Len(b) : b[i] = "</h2>"
    IN  SubSeq(b, o + 1, c - 1)
ImgTok(sd) == IF sd = "source" THEN "' alt='Source'>" ELSE "' alt='Target'>"
MissingTok(sd) ==
    IF sd = "source" THEN "<p class='missing'>Source page not available</p>"
    ELSE "<p class='missing'>Target page not available</p>"

\* ------------------------------------------------------------------ claims

\* C1: take_fullpage_screenshot returns True or False whatever step fails
\* and never lets an exception escape; a pass that ends in a non-automation
\* error (the file write) makes it return False at once.
C1_CaptureNeverRaises ==
    /\ ret # "raised"
    /\ (callLog # <<>> /\ callLog[Len(callLog)].error = "OSError") => ret = "False"

\* C2: whatever captures fail, when the script has ended run_test has
\* appended one entry for every reconciled path and generate_html_report
\* has been called exactly once.
C2_BatchCompletes ==
    pc = "done" => /\ EntryPaths = all_paths
                   /\ reportCalls = 1

\* C3: one invocation creates exactly one browser session, and when the
\* process has ended every session created has been closed by driver.quit.
C3_OneSessionClosed ==
    /\ Len(sessions) <= 1
    /\ Ended => /\ Len(sessions) = 1
                /\ \A i \in 1..Len(sessions) : sessions[i] = "closed"

\* C4: the entries' paths are the union of the source URL paths and the
\* target URL paths, each once, ascending; and for every path with an entry
\* the source (target) capture was called iff the path is a key of the
\* source (target) mapping.
C4_ReconciledPaths ==
    Reconciled =>
        /\ Range(all_paths) = PathsOf(source_urls)
                                \cup PathsOf(TargetFallback(variant, target_urls))
        /\ Ascending(all_paths)
        /\ EntryPaths = SubSeq(all_paths, 1, Len(report_entries))
        /\ (pc = "done" /\ ~unexpected) => Len(report_entries) = Len(all_paths)
        /\ \A i \in 1..Len(report_entries) :
             LET p == report_entries[i].path
             IN  /\ Called(p, "source") <=> p \in DOMAIN source_map
                 /\ Called(p, "target") <=> p \in DOMAIN target_map

\* C5: when the target sitemap fetch returned no URLs, the reconciled paths
\* hold the root path "/", it has a target URL, and the target capture is
\* called for it when the page is processed.
C5_RootFallback ==
    (Reconciled /\ target_urls = <<>>) =>
        /\ Root \in Range(all_paths)
        /\ Truthy(Get(target_map, Root))
        /\ Root \in Range(EntryPaths) => Called(Root, "target")

\* C7: two distinct reconciled paths never have the same slug.
C7_SlugsUnique ==
    \A i, j \in 1..Len(all_paths) :
        i # j => get_path_slug(all_paths[i]) # get_path_slug(all_paths[j])


\* The image path and the failure flag of one side of an entry.
ImgField(e, sd) == IF sd = "source" THEN e.source ELSE e.target
FailedFlag(e, sd) == IF sd = "source" THEN e.source_failed ELSE e.target_failed

\* C6: for every entry and side, the image path is present and the failure
\* flag false exactly when the capture of that side returned True; when it
\* returned False (every pass failed) or was never called (no URL), the
\* image path is None and the flag true.  Once the report is built, the
\* entry's block holds the "not available" marker in place of the <img> for
\* exactly those sides.
C6_FailedSideIsGap ==
    LET blocks == IF html # None THEN PageBlocks(html) ELSE <<>>
    IN  \A i \in 1..Len(report_entries) : \A sd \in Sites :
          LET e  == report_entries[i]
              ok == Succeeded(e.path, sd)
          IN  /\ ok <=> (ImgField(e, sd) # None /\ ~FailedFlag(e, sd))
              /\ (Failed(e.path, sd) \/ ~Called(e.path, sd)) =>
                     (ImgField(e, sd) = None /\ FailedFlag(e, sd))
              /\ html # None =>
                     /\ i \in DOMAIN blocks
                     /\ Count(blocks[i], MissingTok(sd)) = (IF ok THEN 0 ELSE 1)
                     /\ Count(blocks[i], ImgTok(sd)) = (IF ok THEN 1 ELSE 0)

\* C6 witness: in the baseline a report is built in which some page has a
\* source capture that failed on both passes and a target capture that
\* succeeded, and some page has a side without a URL.
C6_Witness ==
    /\ variant = "baseline"
    /\ html # None
    /\ \E i \in 1..Len(report_entries) :
         LET e == report_entries[i]
         IN  /\ Failed(e.path, "source")
             /\ Succeeded(e.path, "target")
             /\ e.source = None /\ e.source_failed
    /\ \E i \in 1..Len(report_entries) : ~Called(report_entries[i].path, "target")

\* s is t without its leading and trailing whitespace.
IsStripOf(s, t) ==
    /\ \E i, j \in 0..Len(t) :
         /\ i + Len(s) + j = Len(t)
         /\ \A k \in 1..i : t[k] \in Whitespace
         /\ \A k \in 1..Len(s) : t[i + k] = s[k]
         /\ \A k \in 1..j : t[i + Len(s) + k] \in Whitespace
    /\ s # <<>> => (s[1] \notin Whitespace /\ s[Len(s)] \notin Whitespace)

\* C8: get_sitemap_urls never raises (after each request run_test is at its
\* next statement, so the target sitemap is requested whatever the source
\* request gave); for a response with N >= 1 <loc> entries it returned
\* their N texts, stripped, in document order, and for an error or a
\* response without <loc> it returned the empty sequence.
C8_SitemapFetch ==
    /\ response # NoResponse => pc \in {"fetch_target", "reconcile"}
    /\ unexpected => ret = "raised"
    /\ pc \in {"fetch_target", "reconcile"} =>
         LET urls == IF pc = "fetch_target" THEN source_urls ELSE target_urls
         IN  IF response.kind = "ok" /\ response.locs # <<>>
             THEN /\ Len(urls) = Len(response.locs)
                  /\ \A i \in 1..Len(urls) : IsStripOf(urls[i], response.locs[i])
             ELSE urls = <<>>

\* C8 witness: the source request gave no URL, the target sitemap was still
\* requested and its two <loc> entries came back in order, one of them
\* stripped of whitespace.
C8_Witness ==
    /\ pc = "reconcile"
    /\ source_urls = <<>>
    /\ response.kind = "ok"
    /\ Len(target_urls) = 2
    /\ target_urls[1] = response.locs[1]
    /\ target_urls[2] # response.locs[2]
    /\ target_urls[1] # target_urls[2]

\* C9: the report holds one <div class='page'> block per entry, in entry
\* order; each block holds one heading, with the entry's path, one source
\* element and one target element (an <img> or a placeholder, not both);
\* no two blocks have the same heading.
C9_OneBlockPerEntry ==
    html # None =>
        LET blocks   == PageBlocks(html)
            headings == [k \in DOMAIN blocks |-> Heading(blocks[k])]
        IN  /\ Len(blocks) = Len(report_entries)
            /\ \A k \in DOMAIN blocks :
                 LET b == blocks[k]
                 IN  /\ Count(b, "<h2>") = 1 /\ Count(b, "</h2>") = 1
                     /\ headings[k] = report_entries[k].path
                     /\ \A sd \in Sites :
                          Count(b, ImgTok(sd)) + Count(b, MissingTok(sd)) = 1
            /\ \A k, l \in DOMAIN blocks : k # l => headings[k] # headings[l]

\* C9 witness: a report of three entries, the first source-only, the second
\* with both images, the third target-only.
C9_Witness ==
    /\ html # None
    /\ Len(report_entries) = 3
    /\ report_entries[1].source # None /\ report_entries[1].target = None
    /\ report_entries[2].source # None /\ report_entries[2].target # None
    /\ report_entries[3].source = None /\ report_entries[3].target # None

\* C10: in the baseline a capture makes at most RETRY_COUNT passes; a pass
\* is followed by another only after an automation error; the first pass in
\* which every step completes ends the capture with True, whatever the
\* cookie step did; False is returned only after RETRY_COUNT passes that
\* all raised an automation error.
C10_BoundedRetry ==
    variant = "baseline" =>
        /\ Len(callLog) <= RETRY_COUNT
        /\ attempt <= RETRY_COUNT
        /\ \A i \in 1..(Len(callLog) - 1) : callLog[i].error = "WebDriverException"
        /\ \A i \in 1..Len(callLog) :
             callLog[i].error = "none" => (i = Len(callLog) /\ ret = "True")
        /\ ret = "True" => callLog[Len(callLog)].error = "none"
        /\ ret = "False" =>
             /\ Len(callLog) = RETRY_COUNT
             /\ \A i \in 1..Len(callLog) : callLog[i].error = "WebDriverException"
        /\ (callLog # <<>> /\ ret = "none") =>
             (pc = "capture" /\ attempt = Len(callLog) + 1)

\* C10 witness: a baseline capture whose first pass raised an automation
\* error and whose second pass, with no cookie banner found, returned True.
C10_Witness ==
    /\ variant = "baseline"
    /\ ret = "True"
    /\ Len(callLog) = RETRY_COUNT
    /\ callLog[1].error = "WebDriverException"
    /\ callLog[2].cookie = "absent"

=============================================================================
